---- MODULE Spec2Model ----
(***************************************************************************)
(* Real-time streaming transcription sessions of Speech-To-Text-Models.    *)
(*                                                                         *)
(*   ui/soniox_ui.py              TranscriptionSession (Gradio front end)  *)
(*   stream/soniox_realtime.py    run_session (terminal program)           *)
(*   stream/soniox_multilingual_stream.py  run_session (terminal program)  *)
(*   stream/gcloud_stt_realtime.py TranscriptionManager (Google variant)   *)
(*                                                                         *)
(* Text is a sequence of pieces: a character of a token's text, or one     *)
(* whole label / tag / fixed message emitted by the code.  "None" stands   *)
(* for Python's None, channel or thread handle 0 for a None reference.     *)
(***************************************************************************)
EXTENDS Integers, Sequences, FiniteSets, TLC

\* ---------------------------------------------------------------- bounds
MaxSessions == 1   \* channels that connect() creates on one session object
MaxFrames   == 2   \* frames read from the device, all capture threads together
MaxBatches  == 2   \* response batches the backend emits, all channels together

Sessions == 1..MaxSessions

\* ------------------------------------------------- tokens and batches
Tok(text, fin, sp, lang) ==
    [text |-> text, is_final |-> fin, speaker |-> sp, language |-> lang,
     translation_status |-> "None"]

\* The text of a token that has no "text" key.
NoText == <<"None">>

\* token.get("text") is truthy: the key is there and the string is not empty.
HasText(token) == token.text # <<>> /\ token.text # NoText

Batch(toks, fin, code, msg) ==
    [tokens |-> toks, finished |-> fin, error_code |-> code, error_message |-> msg]

\* The response batches the backend may send, in any order.
Batches ==
    << Batch(<<Tok(<<" ", "a">>, FALSE, "1", "en"), Tok(NoText, FALSE, "1", "en"),
               Tok(<<"b">>, FALSE, "1", "en")>>, FALSE, "None", "None"),
       Batch(<<Tok(<<>>, TRUE, "1", "en"), Tok(<<"c">>, TRUE, "2", "en"),
               Tok(<<" ", "d">>, FALSE, "2", "hi")>>, FALSE, "None", "None"),
       Batch(<<Tok(<<"e">>, TRUE, "None", "None")>>, TRUE, "None", "None"),
       Batch(<<Tok(<<"f">>, TRUE, "1", "en")>>, FALSE, "503", "overload") >>

BatchIds == 1..Len(Batches)

\* ------------------------------------------------------------- rendering
\* Line 125 without the call of lstrip().
lstrip_Keep(text) == text

\* str.lstrip(), line 125.
RECURSIVE lstrip(_)
lstrip(text) ==
    IF text # <<>> /\ Head(text) = " " THEN lstrip(Tail(text)) ELSE text

\* Line 114, as every speaker that is given were a change of speaker.
SpeakerChanged_AnySpeaker(speaker, current_speaker) == speaker # "None"

\* Line 114.
SpeakerChanged(speaker, current_speaker) ==
    speaker # "None" /\ speaker # current_speaker

\* Line 121 without its first test: a missing language counts as a change.
LanguageChanged_Unguarded(language, current_language) ==
    language # current_language

\* Line 121.
LanguageChanged(language, current_language) ==
    language # "None" /\ language # current_language

\* Line 117 left out: the tracked language survives a change of speaker.
TrackedLanguage_NoReset(spChange, current_language) == current_language

\* Line 117: a change of speaker clears the tracked language.
TrackedLanguage(spChange, current_language) ==
    IF spChange THEN "None" ELSE current_language

RECURSIVE RenderLoop(_, _, _, _)
RenderLoop(tokens, current_speaker, current_language, text_parts) ==
    IF tokens = <<>> THEN text_parts
    ELSE
      LET token == Head(tokens)
          speaker == token.speaker
          language == token.language
          is_translation == token.translation_status = "translation"
          spChange == SpeakerChanged(speaker, current_speaker)
          parts1 == IF spChange
                    THEN (IF current_speaker # "None"
                          THEN text_parts \o <<"\n\n">> ELSE text_parts)
                         \o <<"Speaker " \o speaker \o ":">>
                    ELSE text_parts
          speaker1 == IF spChange THEN speaker ELSE current_speaker
          language1 == TrackedLanguage(spChange, current_language)
          lgChange == LanguageChanged(language, language1)
          prefix == IF is_translation THEN "[Translation] " ELSE ""
          parts2 == IF lgChange
                    THEN parts1 \o <<"\n" \o prefix \o "[" \o language \o "] ">>
                    ELSE parts1
          text == IF lgChange THEN lstrip(token.text) ELSE token.text
          language2 == IF lgChange THEN language ELSE language1
      IN  RenderLoop(Tail(tokens), speaker1, language2, parts2 \o text)

render_tokens(final_tokens_, non_final_tokens_) ==
    RenderLoop(final_tokens_ \o non_final_tokens_, "None", "None", <<>>)

\* --------------------------------------------------------------- merging
\* A merge that takes every token with text for a final one.
ParseLoop_AllFinal(finals, nonfinals, tokens) ==
    [final |-> finals \o SelectSeq(tokens, HasText),
     nonfinal |-> nonfinals]

RECURSIVE ParseLoop(_, _, _)
ParseLoop(finals, nonfinals, tokens) ==
    IF tokens = <<>> THEN [final |-> finals, nonfinal |-> nonfinals]
    ELSE LET token == Head(tokens) IN
         IF HasText(token)
         THEN IF token.is_final
              THEN ParseLoop(Append(finals, token), nonfinals, Tail(tokens))
              ELSE ParseLoop(finals, Append(nonfinals, token), Tail(tokens))
         ELSE ParseLoop(finals, nonfinals, Tail(tokens))

\* A merge that rebuilds the final log from the response at hand.
ParseTokens_ReplaceFinals(finals, prev, tokens) == ParseLoop(<<>>, <<>>, tokens)

\* A merge that keeps the interim tokens of the previous response.
ParseTokens_Accumulate(finals, prev, tokens) == ParseLoop(finals, prev, tokens)

\* Lines 143-149: the local non_final_tokens restarts empty on every response,
\* whatever it held after the previous one (prev).
ParseTokens(finals, prev, tokens) == ParseLoop(finals, <<>>, tokens)

\* ------------------------------------------------------------------ state
VARIABLES
    ws,                 \* TranscriptionSession.ws: 0 or the channel referenced
    stop_event,         \* threading.Event
    audio_thread,       \* 0 or the session whose capture thread is referenced
    receive_thread,     \* 0 or the session whose receive thread is referenced
    final_tokens,
    is_running,
    current_transcript,
    chan,               \* the websocket connections created by connect()
    aud,                \* the stream_audio_from_mic threads, by session
    rcv,                \* the receive_messages threads, by session
    nconn,              \* connections created so far
    pcC,                \* where the consumer is inside stop()
    ret,                \* status returned by the consumer's last start()/stop()
    processed           \* the responses receive_messages handled since the last start()

uiVars == <<ws, stop_event, audio_thread, receive_thread, final_tokens, is_running,
            current_transcript, chan, aud, rcv, nconn, pcC, ret, processed>>

NoChan == [state |-> "none", sent |-> <<>>, inbox |-> <<>>, emitted |-> 0,
           closes |-> 0, eosAt |-> -1]
NoAud  == [pc |-> "none", mic |-> "none", reads |-> 0, raised |-> FALSE]
NoRcv  == [pc |-> "none", conn |-> 0, msg |-> 0, nft |-> <<>>, exit |-> "none"]

RECURSIVE Sum(_, _)
Sum(f, n) == IF n = 0 THEN 0 ELSE f[n] + Sum(f, n - 1)

FramesRead == Sum([k \in DOMAIN aud |-> aud[k].reads], Len(aud))
BatchesEmitted == Sum([c \in DOMAIN chan |-> chan[c].emitted], Len(chan))

UiInit ==
    /\ ws = 0
    /\ stop_event = FALSE
    /\ audio_thread = 0
    /\ receive_thread = 0
    /\ final_tokens = <<>>
    /\ is_running = FALSE
    /\ current_transcript = <<>>
    /\ chan = [c \in Sessions |-> NoChan]
    /\ aud = [k \in Sessions |-> NoAud]
    /\ rcv = [k \in Sessions |-> NoRcv]
    /\ nconn = 0
    /\ pcC = "idle"
    /\ ret = "none"
    /\ processed = <<>>

\* ------------------------------------------------------- start()
\* Lines 168-193: the body of start() behind the is_running guard.
StartSession ==
    \/ \* connect() raises
       /\ is_running' = FALSE
       /\ ret' = "failed_start"
       /\ UNCHANGED <<ws, stop_event, audio_thread, receive_thread, final_tokens,
                      current_transcript, chan, aud, rcv, nconn, pcC, processed>>
    \/ \* connect() returns, sending the configuration raises
       /\ nconn < Len(chan)
       /\ nconn' = nconn + 1
       /\ ws' = nconn + 1
       /\ chan' = [chan EXCEPT ![nconn + 1].state = "failed"]
       /\ is_running' = FALSE
       /\ ret' = "failed_start"
       /\ UNCHANGED <<stop_event, audio_thread, receive_thread, final_tokens,
                      current_transcript, aud, rcv, pcC, processed>>
    \/ \* the session starts
       /\ nconn < Len(chan)
       /\ nconn' = nconn + 1
       /\ ws' = nconn + 1
       /\ chan' = [chan EXCEPT ![nconn + 1].state = "open",
                               ![nconn + 1].sent = <<"config">>]
       /\ stop_event' = FALSE
       /\ final_tokens' = <<>>
       /\ current_transcript' = <<"Listening">>
       /\ is_running' = TRUE
       /\ audio_thread' = nconn + 1
       /\ receive_thread' = nconn + 1
       /\ aud' = [aud EXCEPT ![nconn + 1].pc = "open"]
       /\ rcv' = [rcv EXCEPT ![nconn + 1].pc = "loop"]
       /\ ret' = "started"
       /\ processed' = <<>>
       /\ UNCHANGED pcC

\* A start() that lost its guard of lines 165-166.
Start_NoGuard ==
    /\ pcC = "idle"
    /\ StartSession

Start ==
    /\ pcC = "idle"
    /\ IF is_running
       THEN /\ ret' = "already_running"
            /\ UNCHANGED <<ws, stop_event, audio_thread, receive_thread, final_tokens,
                           is_running, current_transcript, chan, aud, rcv, nconn,
                           pcC, processed>>
       ELSE StartSession

\* ------------------------------------------------------- stop()
\* A stop() that lost its guard of lines 196-197.
StopBegin_NoGuard ==
    /\ pcC = "idle"
    /\ stop_event' = TRUE
    /\ is_running' = FALSE
    /\ pcC' = "join_audio"
    /\ UNCHANGED <<ws, audio_thread, receive_thread, final_tokens,
                   current_transcript, chan, aud, rcv, nconn, ret, processed>>

\* A stop() that sets the stop signal before it looks at is_running.
StopBegin_SignalFirst ==
    /\ pcC = "idle"
    /\ stop_event' = TRUE
    /\ IF ~is_running
       THEN /\ ret' = "no_active"
            /\ UNCHANGED <<is_running, pcC>>
       ELSE /\ is_running' = FALSE
            /\ pcC' = "join_audio"
            /\ UNCHANGED ret
    /\ UNCHANGED <<ws, audio_thread, receive_thread, final_tokens,
                   current_transcript, chan, aud, rcv, nconn, processed>>

\* Lines 196-200.
StopBegin ==
    /\ pcC = "idle"
    /\ IF ~is_running
       THEN /\ ret' = "no_active"
            /\ UNCHANGED <<stop_event, is_running, pcC>>
       ELSE /\ stop_event' = TRUE
            /\ is_running' = FALSE
            /\ pcC' = "join_audio"
            /\ UNCHANGED ret
    /\ UNCHANGED <<ws, audio_thread, receive_thread, final_tokens,
                   current_transcript, chan, aud, rcv, nconn, processed>>

\* A join without a timeout: it returns when the thread has ended.
StopJoinAudio_NoTimeout ==
    /\ pcC = "join_audio"
    /\ aud[audio_thread].pc = "done"
    /\ pcC' = "join_recv"
    /\ UNCHANGED <<ws, stop_event, audio_thread, receive_thread, final_tokens,
                   is_running, current_transcript, chan, aud, rcv, nconn, ret, processed>>

\* audio_thread.join(timeout=2.0): the thread has ended, or the timeout passes.
StopJoinAudio ==
    /\ pcC = "join_audio"
    /\ pcC' = "join_recv"
    /\ UNCHANGED <<ws, stop_event, audio_thread, receive_thread, final_tokens,
                   is_running, current_transcript, chan, aud, rcv, nconn, ret, processed>>

StopJoinRecv ==
    /\ pcC = "join_recv"
    /\ pcC' = "close"
    /\ UNCHANGED <<ws, stop_event, audio_thread, receive_thread, final_tokens,
                   is_running, current_transcript, chan, aud, rcv, nconn, ret, processed>>

\* ws.close() on a connection: closing it again is harmless but is a call.
CloseChan(ch, c) ==
    [ch EXCEPT ![c].state = IF @ = "open" THEN "closed" ELSE @,
               ![c].closes = @ + 1]

StopClose ==
    /\ pcC = "close"
    /\ IF ws # 0
       THEN /\ chan' = CloseChan(chan, ws)
            /\ ws' = 0
       ELSE UNCHANGED <<chan, ws>>
    /\ ret' = "stopped"
    /\ pcC' = "idle"
    /\ UNCHANGED <<stop_event, audio_thread, receive_thread, final_tokens,
                   is_running, current_transcript, aud, rcv, nconn, processed>>

\* ------------------------------------------- stream_audio_from_mic
AudioOpen(k) ==
    /\ aud[k].pc = "open"
    /\ \/ aud' = [aud EXCEPT ![k].mic = "open", ![k].pc = "loop"]
       \/ aud' = [aud EXCEPT ![k].raised = TRUE, ![k].pc = "finally"]
    /\ UNCHANGED <<ws, stop_event, audio_thread, receive_thread, final_tokens,
                   is_running, current_transcript, chan, rcv, nconn, pcC, ret, processed>>

AudioLoop(k) ==
    /\ aud[k].pc = "loop"
    /\ aud' = [aud EXCEPT ![k].pc = IF stop_event THEN "close" ELSE "read"]
    /\ UNCHANGED <<ws, stop_event, audio_thread, receive_thread, final_tokens,
                   is_running, current_transcript, chan, rcv, nconn, pcC, ret, processed>>

AudioRead(k) ==
    /\ aud[k].pc = "read"
    /\ \/ /\ FramesRead < MaxFrames
          /\ aud' = [aud EXCEPT ![k].reads = @ + 1, ![k].pc = "send"]
       \/ aud' = [aud EXCEPT ![k].raised = TRUE, ![k].pc = "finally"]
    /\ UNCHANGED <<ws, stop_event, audio_thread, receive_thread, final_tokens,
                   is_running, current_transcript, chan, rcv, nconn, pcC, ret, processed>>

AudioSend(k) ==
    /\ aud[k].pc = "send"
    /\ IF ws = 0
       THEN /\ aud' = [aud EXCEPT ![k].pc = "loop"]
            /\ UNCHANGED chan
       ELSE IF chan[ws].state = "open"
       THEN /\ chan' = [chan EXCEPT ![ws].sent = Append(@, "frame")]
            /\ aud' = [aud EXCEPT ![k].pc = "loop"]
       ELSE /\ aud' = [aud EXCEPT ![k].raised = TRUE, ![k].pc = "finally"]
            /\ UNCHANGED chan
    /\ UNCHANGED <<ws, stop_event, audio_thread, receive_thread, final_tokens,
                   is_running, current_transcript, rcv, nconn, pcC, ret, processed>>

AudioClose(k) ==
    /\ aud[k].pc = "close"
    /\ aud' = [aud EXCEPT ![k].mic = "closed", ![k].pc = "finally"]
    /\ UNCHANGED <<ws, stop_event, audio_thread, receive_thread, final_tokens,
                   is_running, current_transcript, chan, rcv, nconn, pcC, ret, processed>>

\* The finally block without audio.terminate().
AudioFinally_NoTerminate(k) ==
    /\ aud[k].pc = "finally"
    /\ aud' = [aud EXCEPT ![k].pc = "done"]
    /\ IF ws # 0 /\ chan[ws].state = "open"
       THEN chan' = [chan EXCEPT ![ws].sent = Append(@, "eos"),
                                ![ws].eosAt = IF @ = -1 THEN chan[ws].emitted ELSE @]
       ELSE UNCHANGED chan
    /\ UNCHANGED <<ws, stop_event, audio_thread, receive_thread, final_tokens,
                   is_running, current_transcript, rcv, nconn, pcC, ret, processed>>

\* Lines 93-99.  PyAudio.terminate() closes every stream of the instance
\* that is still open, so it closes the stream when lines 90-91 were skipped.
AudioFinally(k) ==
    /\ aud[k].pc = "finally"
    /\ aud' = [aud EXCEPT ![k].pc = "done",
                          ![k].mic = IF @ = "open" THEN "closed" ELSE @]
    /\ IF ws # 0 /\ chan[ws].state = "open"
       THEN chan' = [chan EXCEPT ![ws].sent = Append(@, "eos"),
                                ![ws].eosAt = IF @ = -1 THEN chan[ws].emitted ELSE @]
       ELSE UNCHANGED chan
    /\ UNCHANGED <<ws, stop_event, audio_thread, receive_thread, final_tokens,
                   is_running, current_transcript, rcv, nconn, pcC, ret, processed>>

\* ------------------------------------------------ receive_messages
\* Lines 160-162: any exception but ConnectionClosedOK ends the thread and is
\* appended to the transcript unless the stop signal is set.
OnException(k) ==
    /\ rcv' = [rcv EXCEPT ![k].pc = "done", ![k].exit = "exception"]
    /\ current_transcript' = IF ~stop_event
                             THEN current_transcript \o <<"\n\nError: ", "e">>
                             ELSE current_transcript

RecvLoop(k) ==
    /\ rcv[k].pc = "loop"
    /\ IF stop_event
       THEN /\ rcv' = [rcv EXCEPT ![k].pc = "done", ![k].exit = "stop"]
            /\ UNCHANGED current_transcript
       ELSE IF ws = 0
       THEN OnException(k)
       ELSE /\ rcv' = [rcv EXCEPT ![k].pc = "recv", ![k].conn = ws]
            /\ UNCHANGED current_transcript
    /\ UNCHANGED <<ws, stop_event, audio_thread, receive_thread, final_tokens,
                   is_running, chan, aud, nconn, pcC, ret, processed>>

RecvMsg(k) ==
    /\ rcv[k].pc = "recv"
    /\ chan[rcv[k].conn].inbox # <<>>
    /\ rcv' = [rcv EXCEPT ![k].pc = "proc", ![k].msg = Head(chan[rcv[k].conn].inbox)]
    /\ chan' = [chan EXCEPT ![rcv[k].conn].inbox = Tail(@)]
    /\ UNCHANGED <<ws, stop_event, audio_thread, receive_thread, final_tokens,
                   is_running, current_transcript, aud, nconn, pcC, ret, processed>>

RecvClosedOK(k) ==
    /\ rcv[k].pc = "recv"
    /\ chan[rcv[k].conn].state = "closed"
    /\ rcv' = [rcv EXCEPT ![k].pc = "done", ![k].exit = "closed_ok"]
    /\ UNCHANGED <<ws, stop_event, audio_thread, receive_thread, final_tokens,
                   is_running, current_transcript, chan, aud, nconn, pcC, ret, processed>>

RecvRaise(k) ==
    /\ rcv[k].pc = "recv"
    /\ chan[rcv[k].conn].state = "failed"
    /\ OnException(k)
    /\ UNCHANGED <<ws, stop_event, audio_thread, receive_thread, final_tokens,
                   is_running, chan, aud, nconn, pcC, ret, processed>>

\* receive_messages without the test of lines 155-156.
RecvProc_IgnoreFinished(k) ==
    /\ rcv[k].pc = "proc"
    /\ LET res == Batches[rcv[k].msg] IN
       IF res.error_code # "None"
       THEN /\ current_transcript' =
                   <<"Error: ", res.error_code, " - ", res.error_message>>
            /\ rcv' = [rcv EXCEPT ![k].pc = "done", ![k].exit = "error_batch"]
            /\ UNCHANGED final_tokens
       ELSE LET m == ParseTokens(final_tokens, rcv[k].nft, res.tokens) IN
            /\ final_tokens' = m.final
            /\ current_transcript' = render_tokens(m.final, m.nonfinal)
            /\ rcv' = [rcv EXCEPT ![k].nft = m.nonfinal, ![k].pc = "loop"]
    /\ processed' = Append(processed, rcv[k].msg)
    /\ UNCHANGED <<ws, stop_event, audio_thread, receive_thread, is_running, chan,
                   aud, nconn, pcC, ret>>

RecvProc(k) ==
    /\ rcv[k].pc = "proc"
    /\ LET res == Batches[rcv[k].msg] IN
       IF res.error_code # "None"
       THEN /\ current_transcript' =
                   <<"Error: ", res.error_code, " - ", res.error_message>>
            /\ rcv' = [rcv EXCEPT ![k].pc = "done", ![k].exit = "error_batch"]
            /\ UNCHANGED final_tokens
       ELSE LET m == ParseTokens(final_tokens, rcv[k].nft, res.tokens) IN
            /\ final_tokens' = m.final
            /\ current_transcript' = render_tokens(m.final, m.nonfinal)
            /\ rcv' = [rcv EXCEPT ![k].nft = m.nonfinal,
                                  ![k].pc = IF res.finished THEN "done" ELSE "loop",
                                  ![k].exit = IF res.finished THEN "finished" ELSE @]
    /\ processed' = Append(processed, rcv[k].msg)
    /\ UNCHANGED <<ws, stop_event, audio_thread, receive_thread, is_running, chan,
                   aud, nconn, pcC, ret>>

\* ------------------------------------------------------ the backend
BackendEmit(c, b) ==
    /\ chan[c].state = "open"
    /\ BatchesEmitted < MaxBatches
    /\ chan' = [chan EXCEPT ![c].inbox = Append(@, b), ![c].emitted = @ + 1]
    /\ UNCHANGED <<ws, stop_event, audio_thread, receive_thread, final_tokens,
                   is_running, current_transcript, aud, rcv, nconn, pcC, ret, processed>>

\* The backend closes the connection in the regular way.
ServerClose(c) ==
    /\ chan[c].state = "open"
    /\ chan' = [chan EXCEPT ![c].state = "closed"]
    /\ UNCHANGED <<ws, stop_event, audio_thread, receive_thread, final_tokens,
                   is_running, current_transcript, aud, rcv, nconn, pcC, ret, processed>>

\* The connection is lost abruptly.
ChannelFail(c) ==
    /\ chan[c].state = "open"
    /\ chan' = [chan EXCEPT ![c].state = "failed"]
    /\ UNCHANGED <<ws, stop_event, audio_thread, receive_thread, final_tokens,
                   is_running, current_transcript, aud, rcv, nconn, pcC, ret, processed>>

(***************************************************************************)
(* stream/gcloud_stt_realtime.py: TranscriptionManager                     *)
(***************************************************************************)
MaxStarts    == 2  \* _transcribe threads that start_transcription() spawns
MaxResponses == 2  \* responses the recognizer delivers, all threads together

Threads == 1..MaxStarts

LANGUAGE_CODES ==
    <<"en-US", "hi-IN", "es-ES", "gu-IN", "de-DE", "ja-JP", "zh-CN", "ar-SA">>

Response(has, text, fin, code) ==
    [has |-> has, transcript |-> text, is_final |-> fin, language_code |-> code]

\* The streaming responses the recognizer may deliver, in any order; the
\* third has no result, the last one carries no language code.
GResponses ==
    << Response(TRUE, <<"x">>, FALSE, "en-US"),
       Response(TRUE, <<"y">>, TRUE, "hi-IN"),
       Response(FALSE, <<>>, FALSE, ""),
       Response(TRUE, <<"z">>, TRUE, "") >>

ResponseIds == 1..Len(GResponses)

_get_language_name(lang_code) ==
    CASE lang_code = "en-US" -> "EN"
      [] lang_code = "hi-IN" -> "HI"
      [] lang_code = "es-ES" -> "ES"
      [] lang_code = "gu-IN" -> "GU"
      [] lang_code = "de-DE" -> "DE"
      [] lang_code = "ja-JP" -> "JA"
      [] lang_code = "zh-CN" -> "ZH"
      [] lang_code = "ar-SA" -> "AR"
      [] OTHER -> lang_code

\* Lines 168-173.
CurrentLang(response) ==
    IF response.language_code # "" THEN response.language_code
    ELSE LANGUAGE_CODES[1]

VARIABLES
    is_recording,
    stream,             \* TranscriptionManager.stream: 0 or the thread that opened it
    full_transcript,
    interim_transcript,
    detected_language,
    language_history,
    lock,               \* TranscriptionManager.lock: 0 or the thread inside `with self.lock`
    gth,                \* the _transcribe threads
    strm,               \* the MicrophoneStream each thread opened
    nthreads,           \* threads spawned so far
    nresp,              \* responses delivered so far
    gret,               \* what the consumer's last start/stop call returned
    gsnap,              \* what the consumer's last get_current_transcript() returned
    committed           \* the snapshot of the state when last no response was half applied

gVars == <<is_recording, stream, full_transcript, interim_transcript,
           detected_language, language_history, lock, gth, strm, nthreads, nresp,
           gret, gsnap, committed>>

\* Lines 213-232, on the given field values.
Snapshot(full, interim, detected) ==
    LET lang_display == IF detected # "Detecting..." THEN detected ELSE "en-US" IN
    IF interim # <<>>
    THEN [text |-> full \o interim, lang |-> lang_display \o " (Live)"]
    ELSE [text |-> full, lang |-> lang_display]

NoSnap == [text |-> <<>>, lang |-> "unread"]
NoRet  == [status |-> "none", text |-> <<>>, lang |-> ""]

GInit ==
    /\ is_recording = FALSE
    /\ stream = 0
    /\ full_transcript = <<>>
    /\ interim_transcript = <<>>
    /\ detected_language = ""
    /\ language_history = <<>>
    /\ lock = 0
    /\ gth = [t \in Threads |-> [pc |-> "none", resp |-> 0, last_detected_lang |-> "None"]]
    /\ strm = [t \in Threads |-> [closed |-> FALSE, device |-> "none"]]
    /\ nthreads = 0
    /\ nresp = 0
    /\ gret = NoRet
    /\ gsnap = NoSnap
    /\ committed = Snapshot(<<>>, <<>>, "")

start_transcription ==
    IF is_recording
    THEN /\ gret' = [status |-> "already_recording", text |-> full_transcript,
                     lang |-> detected_language]
         /\ UNCHANGED <<is_recording, stream, full_transcript, interim_transcript,
                        detected_language, language_history, lock, gth, strm,
                        nthreads, nresp, gsnap, committed>>
    ELSE /\ nthreads < MaxStarts
         /\ is_recording' = TRUE
         /\ full_transcript' = <<>>
         /\ interim_transcript' = <<>>
         /\ detected_language' = "Detecting..."
         /\ language_history' = <<>>
         /\ nthreads' = nthreads + 1
         /\ gth' = [gth EXCEPT ![nthreads + 1].pc = "init"]
         /\ gret' = [status |-> "recording", text |-> <<>>, lang |-> "Detecting..."]
         /\ committed' = Snapshot(<<>>, <<>>, "Detecting...")
         /\ UNCHANGED <<stream, lock, strm, nresp, gsnap>>

\* Lines 91-103.  The three reads are made inside `with self.lock` (lines
\* 97-100), which nothing interrupts: the call gets the lock when it is free.
stop_transcription ==
    /\ lock = 0
    /\ is_recording' = FALSE
    /\ strm' = IF stream # 0 THEN [strm EXCEPT ![stream].closed = TRUE] ELSE strm
    /\ gret' = [status |-> "stopped", text |-> full_transcript,
                lang |-> detected_language]
    /\ UNCHANGED <<stream, full_transcript, interim_transcript, detected_language,
                   language_history, lock, gth, nthreads, nresp, gsnap, committed>>

\* Lines 213-232: the whole body is inside `with self.lock`.
get_current_transcript ==
    /\ lock = 0
    /\ gsnap' = Snapshot(full_transcript, interim_transcript, detected_language)
    /\ UNCHANGED <<is_recording, stream, full_transcript, interim_transcript,
                   detected_language, language_history, lock, gth, strm, nthreads,
                   nresp, gret, committed>>

clear_transcript ==
    /\ full_transcript' = <<>>
    /\ interim_transcript' = <<>>
    /\ detected_language' = ""
    /\ language_history' = <<>>
    /\ committed' = Snapshot(<<>>, <<>>, "")
    /\ UNCHANGED <<is_recording, stream, lock, gth, strm, nthreads, nresp, gret, gsnap>>

\* _transcribe, lines 107-139, up to the call of _process_responses.
TranscribeInit(t) ==
    /\ gth[t].pc = "init"
    /\ gth' = [gth EXCEPT ![t].pc = "open"]
    /\ UNCHANGED <<is_recording, stream, full_transcript, interim_transcript,
                   detected_language, language_history, lock, strm, nthreads,
                   nresp, gret, gsnap, committed>>

TranscribeOpen(t) ==
    /\ gth[t].pc = "open"
    /\ strm' = [strm EXCEPT ![t] = [closed |-> FALSE, device |-> "open"]]
    /\ stream' = t
    /\ gth' = [gth EXCEPT ![t].pc = "next"]
    /\ UNCHANGED <<is_recording, full_transcript, interim_transcript,
                   detected_language, language_history, lock, nthreads, nresp,
                   gret, gsnap, committed>>

\* Lines 141-144: the exception handler, after __exit__ released the stream
\* when the exception came from inside the with block.
TranscribeFail(t) ==
    /\ gth[t].pc \in {"init", "open", "next"}
    /\ lock = 0
    /\ strm' = IF gth[t].pc = "next"
               THEN [strm EXCEPT ![t] = [closed |-> TRUE, device |-> "released"]]
               ELSE strm
    /\ full_transcript' = <<"Error: ", "e">>
    /\ is_recording' = FALSE
    /\ gth' = [gth EXCEPT ![t].pc = "done"]
    /\ committed' = Snapshot(<<"Error: ", "e">>, interim_transcript, detected_language)
    /\ UNCHANGED <<stream, interim_transcript, detected_language, language_history,
                   lock, nthreads, nresp, gret, gsnap>>

\* _process_responses, lines 150-159: the next response arrives.
ProcessNext(t, r) ==
    /\ gth[t].pc = "next"
    /\ nresp < MaxResponses
    /\ nresp' = nresp + 1
    /\ gth' = IF ~is_recording THEN [gth EXCEPT ![t].pc = "exit"]
              ELSE IF ~GResponses[r].has THEN gth
              ELSE [gth EXCEPT ![t].pc = "lang", ![t].resp = r]
    /\ UNCHANGED <<is_recording, stream, full_transcript, interim_transcript,
                   detected_language, language_history, lock, strm, nthreads, gret,
                   gsnap, committed>>

\* The request generator ended (MicrophoneStream.closed), so the responses end.
ProcessEnd(t) ==
    /\ gth[t].pc = "next"
    /\ strm[t].closed
    /\ gth' = [gth EXCEPT ![t].pc = "exit"]
    /\ UNCHANGED <<is_recording, stream, full_transcript, interim_transcript,
                   detected_language, language_history, lock, strm, nthreads,
                   nresp, gret, gsnap, committed>>

\* Line 177: the language of the response differs from the last one seen.
LangChanged(t) ==
    LET current_lang == CurrentLang(GResponses[gth[t].resp]) IN
    current_lang # gth[t].last_detected_lang /\ current_lang # ""

\* `with self.lock:` at line 179 and at line 183: the thread waits until the
\* lock is free and takes it.
LockAcquire(t) ==
    /\ lock = 0
    /\ \/ gth[t].pc = "lang" /\ LangChanged(t)
          /\ gth' = [gth EXCEPT ![t].pc = "lang_cs"]
       \/ gth[t].pc = "update"
          /\ gth' = [gth EXCEPT ![t].pc = "update_cs"]
    /\ lock' = t
    /\ UNCHANGED <<is_recording, stream, full_transcript, interim_transcript,
                   detected_language, language_history, strm, nthreads, nresp,
                   gret, gsnap, committed>>

\* Lines 167-181: the first critical section, left with the lock released;
\* it is skipped when the language did not change.
ProcessLang(t) ==
    /\ LET current_lang == CurrentLang(GResponses[gth[t].resp]) IN
       IF gth[t].pc = "lang_cs"
       THEN /\ lock = t
            /\ gth' = [gth EXCEPT ![t].pc = "update",
                                  ![t].last_detected_lang = current_lang]
            /\ detected_language' = current_lang
            /\ language_history' =
                   IF \E i \in 1..Len(language_history) : language_history[i] = current_lang
                   THEN language_history
                   ELSE Append(language_history, current_lang)
            /\ lock' = 0
       ELSE /\ gth[t].pc = "lang"
            /\ ~LangChanged(t)
            /\ gth' = [gth EXCEPT ![t].pc = "update"]
            /\ UNCHANGED <<detected_language, language_history, lock>>
    /\ UNCHANGED <<is_recording, stream, full_transcript, interim_transcript, strm,
                   nthreads, nresp, gret, gsnap, committed>>

\* Lines 183-197 with the marker added whenever a language is known.
UpdateTranscript_AlwaysTag(full, interim, history, response) ==
    LET current_lang == CurrentLang(response) IN
    IF response.is_final
    THEN [full |-> IF current_lang # ""
                   THEN full \o <<"[" \o _get_language_name(current_lang) \o "] ">>
                             \o response.transcript \o <<" ">>
                   ELSE full \o response.transcript \o <<" ">>,
          interim |-> <<>>]
    ELSE [full |-> full, interim |-> response.transcript]

\* Lines 183-197 with the interim text added to instead of replaced.
UpdateTranscript_Accumulate(full, interim, history, response) ==
    LET current_lang == CurrentLang(response) IN
    IF response.is_final
    THEN [full |-> IF Len(history) > 1 /\ current_lang # ""
                   THEN full \o <<"[" \o _get_language_name(current_lang) \o "] ">>
                             \o response.transcript \o <<" ">>
                   ELSE full \o response.transcript \o <<" ">>,
          interim |-> <<>>]
    ELSE [full |-> full, interim |-> interim \o response.transcript]

\* Lines 183-197 on the given field values: the second critical section.
UpdateTranscript(full, interim, history, response) ==
    LET current_lang == CurrentLang(response) IN
    IF response.is_final
    THEN [full |-> IF Len(history) > 1 /\ current_lang # ""
                   THEN full \o <<"[" \o _get_language_name(current_lang) \o "] ">>
                             \o response.transcript \o <<" ">>
                   ELSE full \o response.transcript \o <<" ">>,
          interim |-> <<>>]
    ELSE [full |-> full, interim |-> response.transcript]

\* The second critical section with the lock kept when it is left.
ProcessUpdate_KeepLock(t) ==
    /\ gth[t].pc = "update_cs"
    /\ lock = t
    /\ LET u == UpdateTranscript(full_transcript, interim_transcript,
                                 language_history, GResponses[gth[t].resp]) IN
       /\ full_transcript' = u.full
       /\ interim_transcript' = u.interim
       /\ committed' = Snapshot(u.full, u.interim, detected_language)
    /\ gth' = [gth EXCEPT ![t].pc = "next"]
    /\ UNCHANGED <<is_recording, stream, detected_language, language_history, lock,
                   strm, nthreads, nresp, gret, gsnap>>

ProcessUpdate(t) ==
    /\ gth[t].pc = "update_cs"
    /\ lock = t
    /\ LET u == UpdateTranscript(full_transcript, interim_transcript,
                                 language_history, GResponses[gth[t].resp]) IN
       /\ full_transcript' = u.full
       /\ interim_transcript' = u.interim
       /\ committed' = Snapshot(u.full, u.interim, detected_language)
    /\ gth' = [gth EXCEPT ![t].pc = "next"]
    /\ lock' = 0
    /\ UNCHANGED <<is_recording, stream, detected_language, language_history, strm,
                   nthreads, nresp, gret, gsnap>>

\* MicrophoneStream.__exit__, lines 43-47, when the with block ends normally.
TranscribeExit(t) ==
    /\ gth[t].pc = "exit"
    /\ strm' = [strm EXCEPT ![t] = [closed |-> TRUE, device |-> "released"]]
    /\ gth' = [gth EXCEPT ![t].pc = "done"]
    /\ UNCHANGED <<is_recording, stream, full_transcript, interim_transcript,
                   detected_language, language_history, lock, nthreads, nresp,
                   gret, gsnap, committed>>

(***************************************************************************)
(* render_tokens on its own: the function applied to token lists           *)
(***************************************************************************)
MaxTokens == 5     \* tokens handed to render_tokens in one call

Speakers == {"1", "2"}
Languages == {"en", "hi"}

\* The tokens render_tokens is given: with or without a speaker, with or
\* without a language, the text with a leading blank.
RenderTokens ==
    {Tok(<<" ", "a">>, FALSE, sp, lang) :
        sp \in Speakers \cup {"None"}, lang \in Languages \cup {"None"}}

VARIABLES
    arg_final_tokens,       \* the final_tokens argument of the call
    arg_non_final_tokens,   \* the non_final_tokens argument of the call
    rendered                \* the string the call returned

rVars == <<arg_final_tokens, arg_non_final_tokens, rendered>>

RInit ==
    /\ arg_final_tokens = <<>>
    /\ arg_non_final_tokens = <<>>
    /\ rendered = <<>>

\* One more response: the interim token of the last call has become final,
\* token is the new interim one, and the lists are rendered again.
RenderCall(token) ==
    /\ Len(arg_final_tokens) + Len(arg_non_final_tokens) < MaxTokens
    /\ arg_final_tokens' =
          arg_final_tokens
             \o [i \in 1..Len(arg_non_final_tokens) |->
                   [arg_non_final_tokens[i] EXCEPT !.is_final = TRUE]]
    /\ arg_non_final_tokens' = <<token>>
    /\ rendered' = render_tokens(arg_final_tokens', arg_non_final_tokens')

(***************************************************************************)
(* The repository's programs are independent: a run is a run of one.       *)
(***************************************************************************)
VARIABLE variant

Ui == variant = "soniox_ui"
Rt == variant = "soniox_realtime"
Ml == variant = "soniox_multilingual"
Gc == variant = "gcloud"

Terminal == Rt \/ Ml
Soniox == Ui \/ Terminal

(***************************************************************************)
(* stream/soniox_realtime.py and stream/soniox_multilingual_stream.py:     *)
(* run_session.  The receive loop runs in the main thread: rcv[1] is its   *)
(* position, chan[1] the connection of the with block, aud[1] the thread   *)
(* of stream_audio_from_mic (the same code as in ui/soniox_ui.py, its ws   *)
(* never None), final_tokens the local list of that name and               *)
(* current_transcript what was printed last.                               *)
(***************************************************************************)
Separator == "\n==============================="

\* soniox_realtime.py, lines 133-164: the rendering of the front end followed
\* by a separator line.
render_tokens_rt(final_tokens_, non_final_tokens_) ==
    render_tokens(final_tokens_, non_final_tokens_) \o <<Separator>>

\* text.split(Separator)[0]
RECURSIVE SplitHead(_, _)
SplitHead(text, sep) ==
    IF text = <<>> \/ Head(text) = sep THEN <<>>
    ELSE <<Head(text)>> \o SplitHead(Tail(text), sep)

\* "".join(t["text"] for t in tokens)
RECURSIVE JoinText(_)
JoinText(tokens) ==
    IF tokens = <<>> THEN <<>> ELSE Head(tokens).text \o JoinText(Tail(tokens))

\* soniox_multilingual_stream.py, lines 68-84: the words of the text joined
\* by single blanks (no word of the model is in the dictionaries).
RECURSIVE MapLoop(_, _, _)
MapLoop(text, word, result) ==
    LET flush == IF word = <<>> THEN result
                 ELSE IF result = <<>> THEN word
                 ELSE result \o <<" ">> \o word
    IN  IF text = <<>> THEN flush
        ELSE IF Head(text) = " " THEN MapLoop(Tail(text), <<>>, flush)
        ELSE MapLoop(Tail(text), Append(word, Head(text)), result)

map_languages(text) == MapLoop(text, <<>>, <<>>)

\* run_session up to the receive loop: connect, send the configuration,
\* start the capture thread.
RunSession ==
    /\ rcv[1].pc = "none"
    /\ nconn = 0
    /\ \/ \* connect() raises
          /\ rcv' = [rcv EXCEPT ![1].pc = "done", ![1].exit = "connect_failed"]
          /\ current_transcript' = <<"Failed to connect: ", "e">>
          /\ UNCHANGED <<ws, stop_event, audio_thread, final_tokens, chan, aud, nconn>>
       \/ \* sending the configuration raises: the with block closes ws
          /\ nconn' = 1
          /\ ws' = 1
          /\ chan' = CloseChan([chan EXCEPT ![1].state = "failed"], 1)
          /\ rcv' = [rcv EXCEPT ![1].pc = "done", ![1].exit = "connect_failed"]
          /\ current_transcript' = <<"Failed to connect: ", "e">>
          /\ UNCHANGED <<stop_event, audio_thread, final_tokens, aud>>
       \/ /\ nconn' = 1
          /\ ws' = 1
          /\ chan' = [chan EXCEPT ![1].state = "open", ![1].sent = <<"config">>]
          /\ stop_event' = FALSE
          /\ audio_thread' = 1
          /\ aud' = [aud EXCEPT ![1].pc = "open"]
          /\ final_tokens' = <<>>
          /\ rcv' = [rcv EXCEPT ![1].pc = "recv", ![1].conn = 1]
          /\ current_transcript' = <<"Session started">>
    /\ UNCHANGED <<receive_thread, is_running, pcC, ret, processed>>

\* soniox_realtime.py, lines 196-225: one response handled.
RunProc ==
    /\ rcv[1].pc = "proc"
    /\ LET res == Batches[rcv[1].msg] IN
       IF res.error_code # "None"
       THEN /\ current_transcript' =
                   <<"Error: ", res.error_code, " - ", res.error_message>>
            /\ rcv' = [rcv EXCEPT ![1].pc = "join", ![1].exit = "error_batch"]
            /\ UNCHANGED final_tokens
       ELSE LET m == ParseTokens(final_tokens, rcv[1].nft, res.tokens) IN
            /\ final_tokens' = m.final
            /\ current_transcript' =
                   SplitHead(render_tokens_rt(m.final, m.nonfinal), Separator)
            /\ rcv' = [rcv EXCEPT ![1].nft = m.nonfinal,
                                  ![1].pc = IF res.finished THEN "join" ELSE "recv",
                                  ![1].exit = IF res.finished THEN "finished" ELSE @]
    /\ processed' = Append(processed, rcv[1].msg)
    /\ UNCHANGED <<ws, stop_event, audio_thread, receive_thread, is_running, chan,
                   aud, nconn, pcC, ret>>

\* soniox_multilingual_stream.py, lines 138-159 and the finally of 167-168:
\* one response handled; t["text"] raises KeyError on a token without text.
MultiProc ==
    /\ rcv[1].pc = "proc"
    /\ LET res == Batches[rcv[1].msg]
           finals == SelectSeq(res.tokens, LAMBDA t : t.is_final)
           non_finals == SelectSeq(res.tokens, LAMBDA t : ~t.is_final)
       IN
       IF res.error_code # "None"
       THEN /\ current_transcript' =
                   <<"Error: ", res.error_code, " - ", res.error_message>>
            /\ rcv' = [rcv EXCEPT ![1].pc = "join", ![1].exit = "error_batch"]
            /\ stop_event' = TRUE
            /\ UNCHANGED final_tokens
       ELSE IF \E i \in 1..Len(res.tokens) : res.tokens[i].text = NoText
       THEN /\ current_transcript' = <<"Error: ", "e">>
            /\ rcv' = [rcv EXCEPT ![1].pc = "join", ![1].exit = "exception"]
            /\ stop_event' = TRUE
            /\ final_tokens' = finals
       ELSE /\ final_tokens' = finals
            /\ current_transcript' =
                   map_languages(JoinText(finals)) \o map_languages(JoinText(non_finals))
            /\ rcv' = [rcv EXCEPT ![1].nft = non_finals,
                                  ![1].pc = IF res.finished THEN "join" ELSE "recv",
                                  ![1].exit = IF res.finished THEN "finished" ELSE @]
            /\ stop_event' = (stop_event \/ res.finished)
    /\ processed' = Append(processed, rcv[1].msg)
    /\ UNCHANGED <<ws, audio_thread, receive_thread, is_running, chan,
                   aud, nconn, pcC, ret>>

\* KeyboardInterrupt while the main thread waits in ws.recv().
RunInterrupt ==
    /\ rcv[1].pc = "recv"
    /\ rcv' = [rcv EXCEPT ![1].pc = "join", ![1].exit = "interrupt"]
    /\ stop_event' = TRUE
    /\ UNCHANGED <<ws, audio_thread, receive_thread, final_tokens, is_running,
                   current_transcript, chan, aud, nconn, pcC, ret, processed>>

\* except Exception: the connection was lost.
RunRaise ==
    /\ rcv[1].pc = "recv"
    /\ chan[1].state = "failed"
    /\ rcv' = [rcv EXCEPT ![1].pc = "join", ![1].exit = "exception"]
    /\ current_transcript' = <<"Error: ", "e">>
    /\ stop_event' = TRUE
    /\ UNCHANGED <<ws, audio_thread, receive_thread, final_tokens, is_running,
                   chan, aud, nconn, pcC, ret, processed>>

\* except ConnectionClosedOK: soniox_realtime.py goes on to the join as it
\* is, soniox_multilingual_stream.py sets the stop signal in its finally.
RunClosedOK ==
    /\ rcv[1].pc = "recv"
    /\ chan[1].state = "closed"
    /\ rcv' = [rcv EXCEPT ![1].pc = "join", ![1].exit = "closed_ok"]
    /\ stop_event' = (stop_event \/ Ml)
    /\ UNCHANGED <<ws, audio_thread, receive_thread, final_tokens, is_running,
                   current_transcript, chan, aud, nconn, pcC, ret, processed>>

\* audio_thread.join(timeout=2.0): the thread has ended, or the timeout passes.
RunJoin ==
    /\ rcv[1].pc = "join"
    /\ rcv' = [rcv EXCEPT ![1].pc = "exit"]
    /\ UNCHANGED <<ws, stop_event, audio_thread, receive_thread, final_tokens,
                   is_running, current_transcript, chan, aud, nconn, pcC, ret,
                   processed>>

\* The with block ends: the connection is closed.
RunExit ==
    /\ rcv[1].pc = "exit"
    /\ chan' = CloseChan(chan, 1)
    /\ rcv' = [rcv EXCEPT ![1].pc = "done"]
    /\ UNCHANGED <<ws, stop_event, audio_thread, receive_thread, final_tokens,
                   is_running, current_transcript, aud, nconn, pcC, ret, processed>>

vars == <<variant, uiVars, gVars, rVars>>

Init ==
    /\ variant \in {"soniox_ui", "soniox_realtime", "soniox_multilingual", "gcloud"}
    /\ UiInit
    /\ GInit
    /\ RInit

\* The steps of the three Soniox programs.
SonioxNext ==
    \/ Ui /\ Start /\ UNCHANGED <<variant, gVars, rVars>>
    \/ Ui /\ StopBegin /\ UNCHANGED <<variant, gVars, rVars>>
    \/ Ui /\ StopJoinAudio /\ UNCHANGED <<variant, gVars, rVars>>
    \/ Ui /\ StopJoinRecv /\ UNCHANGED <<variant, gVars, rVars>>
    \/ Ui /\ StopClose /\ UNCHANGED <<variant, gVars, rVars>>
    \/ \E k \in Sessions : Soniox /\ AudioOpen(k) /\ UNCHANGED <<variant, gVars, rVars>>
    \/ \E k \in Sessions : Soniox /\ AudioLoop(k) /\ UNCHANGED <<variant, gVars, rVars>>
    \/ \E k \in Sessions : Soniox /\ AudioRead(k) /\ UNCHANGED <<variant, gVars, rVars>>
    \/ \E k \in Sessions : Soniox /\ AudioSend(k) /\ UNCHANGED <<variant, gVars, rVars>>
    \/ \E k \in Sessions : Soniox /\ AudioClose(k) /\ UNCHANGED <<variant, gVars, rVars>>
    \/ \E k \in Sessions : Soniox /\ AudioFinally(k) /\ UNCHANGED <<variant, gVars, rVars>>
    \/ \E k \in Sessions : Ui /\ RecvLoop(k) /\ UNCHANGED <<variant, gVars, rVars>>
    \/ \E k \in Sessions : Soniox /\ RecvMsg(k) /\ UNCHANGED <<variant, gVars, rVars>>
    \/ \E k \in Sessions : Ui /\ RecvClosedOK(k) /\ UNCHANGED <<variant, gVars, rVars>>
    \/ \E k \in Sessions : Ui /\ RecvRaise(k) /\ UNCHANGED <<variant, gVars, rVars>>
    \/ \E k \in Sessions : Ui /\ RecvProc(k) /\ UNCHANGED <<variant, gVars, rVars>>
    \/ \E c \in Sessions, b \in BatchIds :
          Soniox /\ BackendEmit(c, b) /\ UNCHANGED <<variant, gVars, rVars>>
    \/ \E c \in Sessions : Soniox /\ ServerClose(c) /\ UNCHANGED <<variant, gVars, rVars>>
    \/ \E c \in Sessions : Soniox /\ ChannelFail(c) /\ UNCHANGED <<variant, gVars, rVars>>
    \/ Terminal /\ RunSession /\ UNCHANGED <<variant, gVars, rVars>>
    \/ Rt /\ RunProc /\ UNCHANGED <<variant, gVars, rVars>>
    \/ Ml /\ MultiProc /\ UNCHANGED <<variant, gVars, rVars>>
    \/ Terminal /\ RunInterrupt /\ UNCHANGED <<variant, gVars, rVars>>
    \/ Terminal /\ RunRaise /\ UNCHANGED <<variant, gVars, rVars>>
    \/ Terminal /\ RunClosedOK /\ UNCHANGED <<variant, gVars, rVars>>
    \/ Terminal /\ RunJoin /\ UNCHANGED <<variant, gVars, rVars>>
    \/ Terminal /\ RunExit /\ UNCHANGED <<variant, gVars, rVars>>

\* The steps of the Google program.
GcNext ==
    \/ Gc /\ start_transcription /\ UNCHANGED <<variant, uiVars, rVars>>
    \/ Gc /\ stop_transcription /\ UNCHANGED <<variant, uiVars, rVars>>
    \/ Gc /\ get_current_transcript /\ UNCHANGED <<variant, uiVars, rVars>>
    \/ Gc /\ clear_transcript /\ UNCHANGED <<variant, uiVars, rVars>>
    \/ \E t \in Threads : Gc /\ TranscribeInit(t) /\ UNCHANGED <<variant, uiVars, rVars>>
    \/ \E t \in Threads : Gc /\ TranscribeOpen(t) /\ UNCHANGED <<variant, uiVars, rVars>>
    \/ \E t \in Threads : Gc /\ TranscribeFail(t) /\ UNCHANGED <<variant, uiVars, rVars>>
    \/ \E t \in Threads, r \in ResponseIds :
          Gc /\ ProcessNext(t, r) /\ UNCHANGED <<variant, uiVars, rVars>>
    \/ \E t \in Threads : Gc /\ ProcessEnd(t) /\ UNCHANGED <<variant, uiVars, rVars>>
    \/ \E t \in Threads : Gc /\ LockAcquire(t) /\ UNCHANGED <<variant, uiVars, rVars>>
    \/ \E t \in Threads : Gc /\ ProcessLang(t) /\ UNCHANGED <<variant, uiVars, rVars>>
    \/ \E t \in Threads : Gc /\ ProcessUpdate(t) /\ UNCHANGED <<variant, uiVars, rVars>>
    \/ \E t \in Threads : Gc /\ TranscribeExit(t) /\ UNCHANGED <<variant, uiVars, rVars>>

Next == SonioxNext \/ GcNext

Spec == Init /\ [][Next]_vars

\* The Soniox programs with the calls that return in bounded time taken to
\* return: join(timeout=2.0) and the close of the connection.  Nothing is
\* assumed of the threads, the device or the backend.
SonioxInit ==
    /\ variant \in {"soniox_ui", "soniox_realtime", "soniox_multilingual"}
    /\ UiInit
    /\ GInit
    /\ RInit

StopReturns ==
    Ui /\ (StopJoinAudio \/ StopJoinRecv \/ StopClose)
       /\ UNCHANGED <<variant, gVars, rVars>>

RunReturns ==
    Terminal /\ (RunJoin \/ RunExit) /\ UNCHANGED <<variant, gVars, rVars>>

SonioxLiveSpec ==
    SonioxInit /\ [][SonioxNext]_vars /\ WF_vars(StopReturns) /\ WF_vars(RunReturns)

\* The Soniox programs with a capture thread that keeps running: a device
\* read or a send that is pending returns or raises, and the thread goes on.
CaptureSteps ==
    \E k \in Sessions :
       /\ Soniox
       /\ \/ AudioOpen(k) \/ AudioLoop(k) \/ AudioRead(k)
          \/ AudioSend(k) \/ AudioClose(k) \/ AudioFinally(k)
       /\ UNCHANGED <<variant, gVars, rVars>>

CaptureLiveSpec == SonioxInit /\ [][SonioxNext]_vars /\ WF_vars(CaptureSteps)

\* ------------------------------------------------------------------
\* The front end restarted: start() after stop() on the same session object,
\* with threads of the earlier session possibly still alive.  The backend is
\* silent and the connections hold.  start() is taken in its two steps,
\* since a thread of the earlier session can run between them.
MaxConnections == 2   \* channels that connect() creates, restarts included

Connections == 1..MaxConnections

RestartInit ==
    /\ variant = "soniox_ui"
    /\ ws = 0
    /\ stop_event = FALSE
    /\ audio_thread = 0
    /\ receive_thread = 0
    /\ final_tokens = <<>>
    /\ is_running = FALSE
    /\ current_transcript = <<>>
    /\ chan = [c \in Connections |-> NoChan]
    /\ aud = [k \in Connections |-> NoAud]
    /\ rcv = [k \in Connections |-> NoRcv]
    /\ nconn = 0
    /\ pcC = "idle"
    /\ ret = "none"
    /\ processed = <<>>
    /\ GInit
    /\ RInit

\* Lines 165-169: the guard and self.ws = connect(...).
StartConnect ==
    /\ pcC = "idle"
    /\ IF is_running
       THEN /\ ret' = "already_running"
            /\ UNCHANGED <<ws, chan, nconn, is_running, pcC>>
       ELSE \/ \* connect() raises
               /\ is_running' = FALSE
               /\ ret' = "failed_start"
               /\ UNCHANGED <<ws, chan, nconn, pcC>>
            \/ /\ nconn < Len(chan)
               /\ nconn' = nconn + 1
               /\ ws' = nconn + 1
               /\ chan' = [chan EXCEPT ![nconn + 1].state = "open"]
               /\ pcC' = "config"
               /\ UNCHANGED <<is_running, ret>>
    /\ UNCHANGED <<stop_event, audio_thread, receive_thread, final_tokens,
                   current_transcript, aud, rcv, processed>>

\* Lines 170-193: the configuration is sent and the threads are started.
StartConfig ==
    /\ pcC = "config"
    /\ pcC' = "idle"
    /\ \/ \* sending the configuration raises
          /\ chan' = [chan EXCEPT ![ws].state = "failed"]
          /\ is_running' = FALSE
          /\ ret' = "failed_start"
          /\ UNCHANGED <<stop_event, audio_thread, receive_thread, final_tokens,
                         current_transcript, aud, rcv, processed>>
       \/ /\ chan' = [chan EXCEPT ![ws].sent = Append(@, "config")]
          /\ stop_event' = FALSE
          /\ final_tokens' = <<>>
          /\ current_transcript' = <<"Listening">>
          /\ is_running' = TRUE
          /\ audio_thread' = ws
          /\ receive_thread' = ws
          /\ aud' = [aud EXCEPT ![ws].pc = "open"]
          /\ rcv' = [rcv EXCEPT ![ws].pc = "loop"]
          /\ ret' = "started"
          /\ processed' = <<>>
    /\ UNCHANGED <<ws, nconn>>

RestartNext ==
    \/ StartConnect /\ UNCHANGED <<variant, gVars, rVars>>
    \/ StartConfig /\ UNCHANGED <<variant, gVars, rVars>>
    \/ StopBegin /\ UNCHANGED <<variant, gVars, rVars>>
    \/ StopJoinAudio /\ UNCHANGED <<variant, gVars, rVars>>
    \/ StopJoinRecv /\ UNCHANGED <<variant, gVars, rVars>>
    \/ StopClose /\ UNCHANGED <<variant, gVars, rVars>>
    \/ \E k \in Connections : AudioOpen(k) /\ UNCHANGED <<variant, gVars, rVars>>
    \/ \E k \in Connections : AudioLoop(k) /\ UNCHANGED <<variant, gVars, rVars>>
    \/ \E k \in Connections : AudioRead(k) /\ UNCHANGED <<variant, gVars, rVars>>
    \/ \E k \in Connections : AudioSend(k) /\ UNCHANGED <<variant, gVars, rVars>>
    \/ \E k \in Connections : AudioClose(k) /\ UNCHANGED <<variant, gVars, rVars>>
    \/ \E k \in Connections : AudioFinally(k) /\ UNCHANGED <<variant, gVars, rVars>>
    \/ \E k \in Connections : RecvLoop(k) /\ UNCHANGED <<variant, gVars, rVars>>
    \/ \E k \in Connections : RecvClosedOK(k) /\ UNCHANGED <<variant, gVars, rVars>>

RestartSpec == RestartInit /\ [][RestartNext]_vars

\* render_tokens alone, on every list of up to MaxTokens tokens.
RenderInit ==
    /\ variant = "render"
    /\ UiInit
    /\ GInit
    /\ RInit

RenderNext ==
    \E token \in RenderTokens :
        RenderCall(token) /\ UNCHANGED <<variant, uiVars, gVars>>

RenderSpec == RenderInit /\ [][RenderNext]_vars

(***************************************************************************)
(* Properties                                                              *)
(***************************************************************************)
IsPrefix(s, t) == Len(s) <= Len(t) /\ SubSeq(t, 1, Len(s)) = s

\* The tokens of a response by kind.
NonFinalsOf(tokens) == SelectSeq(tokens, LAMBDA t : ~t.is_final /\ HasText(t))
AllFinalsOf(res) == SelectSeq(res.tokens, LAMBDA t : t.is_final)
TextFinalsOf(res) ==
    IF res.error_code # "None" THEN <<>>
    ELSE SelectSeq(res.tokens, LAMBDA t : t.is_final /\ HasText(t))

RECURSIVE AllFinalsIn(_)
AllFinalsIn(ids) ==
    IF ids = <<>> THEN <<>>
    ELSE AllFinalsOf(Batches[Head(ids)]) \o AllFinalsIn(Tail(ids))

RECURSIVE TextFinalsIn(_)
TextFinalsIn(ids) ==
    IF ids = <<>> THEN <<>>
    ELSE TextFinalsOf(Batches[Head(ids)]) \o TextFinalsIn(Tail(ids))

\* The lifecycle of the session as the consumer sees it.
UiIdle == receive_thread = 0
UiRunning ==
    receive_thread # 0 /\ ~stop_event /\ pcC = "idle" /\ rcv[receive_thread].pc # "done"
UiFailed ==
    /\ receive_thread # 0 /\ ~stop_event /\ pcC = "idle"
    /\ rcv[receive_thread].pc = "done"
    /\ rcv[receive_thread].exit \in {"exception", "error_batch", "finished"}
UiStopped == stop_event /\ pcC = "idle"
GRunning == is_recording /\ nthreads > 0 /\ gth[nthreads].pc # "done"

\* C1: within a session of the front end or of soniox_realtime.py (any step
\* but a start that opens a new one) the final log only grows: what it held
\* stays as a prefix, position and text alike.  (soniox_multilingual_stream.py
\* keeps no log: its final_tokens is the list of one response.)
C1_FinalLogOnlyGrows ==
    [][((Ui \/ Rt) /\ nconn' = nconn) => IsPrefix(final_tokens, final_tokens')]_vars

C1_Witness == Ui /\ Len(processed) = 2 /\ Len(final_tokens) = 2

\* C2: when a response without an error code has been handled by the front
\* end or by soniox_realtime.py, the transcript
\* is the rendering of the final log followed by the non-final tokens of that
\* response alone; nothing of an earlier response's interim tokens is in it.
C2_InterimReplaced ==
    [][\A k \in Sessions :
         ((Ui \/ Rt) /\ rcv[k].pc = "proc" /\ rcv'[k].pc # "proc"
            /\ Batches[rcv[k].msg].error_code = "None")
         => current_transcript' =
              render_tokens(final_tokens', NonFinalsOf(Batches[rcv[k].msg].tokens))]_vars

C2_Witness ==
    /\ Ui
    /\ processed = <<1, 2>>
    /\ current_transcript = <<"Speaker 2:", "\n[en] ", "c", "\n[hi] ", "d">>

\* C3 as claimed: the final log is the concatenation, in order, of every token
\* with is_final of every response handled so far.
C3_FinalLogIsEveryFinal ==
    Ui => final_tokens = AllFinalsIn(processed)

\* C3 amended: the final log is the concatenation, in order, of the is_final
\* tokens that carry text, of the responses without an error code handled
\* since the last start(); each once, and no non-final token.
C3_FinalLogIsTextFinals ==
    Ui => final_tokens = TextFinalsIn(processed)

C3_Witness ==
    /\ Ui
    /\ processed = <<2, 3>>
    /\ Len(final_tokens) = 2
    /\ final_tokens[1].text = <<"c">>
    /\ final_tokens[2].text = <<"e">>

\* C4: what get_current_transcript() returns is the state with a whole number
\* of responses applied: the last committed state, or the one that the
\* response now half applied leads to when that is the same.
SnapshotAfter(t) ==
    LET u == UpdateTranscript(full_transcript, interim_transcript,
                              language_history, GResponses[gth[t].resp])
    IN  Snapshot(u.full, u.interim, detected_language)

C4_SnapshotIsWhole ==
    [][(Gc /\ gsnap' # gsnap)
         => \/ gsnap' = committed
            \/ \E t \in Threads : gth[t].pc = "update" /\ gsnap' = SnapshotAfter(t)]_vars

\* C5: when stop() has returned after frames were captured and sent, with the
\* capture thread and the receive thread both ended, no response with final
\* tokens that the backend sent after the end-of-stream marker, before the
\* channel was closed, is left unreceived: its tokens are in the final log.
SentAfterEos(c) ==
    {i \in 1..Len(chan[c].inbox) :
        /\ chan[c].eosAt >= 0
        /\ chan[c].emitted - Len(chan[c].inbox) + i > chan[c].eosAt}

C5_DrainedFinalsMerged ==
    (/\ Ui /\ pcC = "idle" /\ ret = "stopped"
     /\ aud[audio_thread].pc = "done" /\ ~aud[audio_thread].raised
     /\ aud[audio_thread].reads >= 1
     /\ rcv[receive_thread].pc = "done")
    => \A i \in SentAfterEos(receive_thread) :
           TextFinalsOf(Batches[chan[receive_thread].inbox[i]]) = <<>>

C7_StopBeforeStart ==
    [][/\ (Ui /\ StopBegin /\ nconn = 0)
          => /\ ret' = "no_active"
             /\ UNCHANGED <<ws, stop_event, audio_thread, receive_thread,
                            final_tokens, is_running, current_transcript, chan,
                            aud, rcv, nconn, pcC>>
       /\ (Gc /\ stop_transcription /\ nthreads = 0)
          => /\ gret'.status = "stopped"
             /\ UNCHANGED <<is_recording, stream, full_transcript,
                            interim_transcript, detected_language,
                            language_history, gth, strm>>]_vars

C7_Witness == Ui /\ ret = "no_active" /\ nconn = 0 /\ ~stop_event

\* C8: when stop() has returned, the channel of the session has been closed
\* exactly once and its microphone stream, if it was opened, has been closed.
C8_ClosedExactlyOnce ==
    (Ui /\ pcC = "idle" /\ ret = "stopped")
    => /\ chan[audio_thread].closes = 1
       /\ aud[audio_thread].mic # "open"

\* C9: start() on a running session is rejected and changes nothing.
C9_StartWhileRunningRejected ==
    [][/\ (Ui /\ Start /\ UiRunning)
          => /\ ret' = "already_running"
             /\ UNCHANGED <<ws, stop_event, audio_thread, receive_thread,
                            final_tokens, is_running, current_transcript, chan,
                            aud, rcv, nconn, pcC>>
       /\ (Gc /\ start_transcription /\ GRunning)
          => /\ gret'.status = "already_recording"
             /\ UNCHANGED <<is_recording, stream, full_transcript,
                            interim_transcript, detected_language,
                            language_history, gth, strm, nthreads>>]_vars

C9_Witness ==
    /\ Ui
    /\ ret = "already_running"
    /\ UiRunning
    /\ chan[1].state = "open"

\* C10: start() is not rejected as already running when the session is idle,
\* stopped, or failed (its receive thread ended without a stop()).
C10_StartAcceptedWhenNotRunning ==
    [][(Ui /\ Start /\ (UiIdle \/ UiStopped \/ UiFailed))
         => ret' # "already_running"]_vars

\* The transcript carries an error description.
HasErrorText(text) ==
    \E i \in 1..Len(text) : text[i] \in {"Error: ", "\n\nError: "}

\* The consumer has not called stop() since the session was started.
NoStopCalled == pcC = "idle" /\ ret \in {"started", "already_running"}

\* C11: when the connection was lost while the receive thread waited in
\* recv() and the consumer has not called stop(), an error description is in
\* the transcript and the stop signal is set for the capture thread.
C11_ConnectionErrorSetsStop ==
    \A k \in Sessions :
        (Ui /\ NoStopCalled /\ rcv[k].pc = "done" /\ rcv[k].exit = "exception")
        => /\ HasErrorText(current_transcript)
           /\ stop_event

\* C12: when a response with an error code ended the receive loop and the
\* consumer has not called stop(), the transcript is the error message as
\* received, no token of that response is in the final log, and the stop
\* signal is set as stop() would set it.
C12_ErrorBatchTearsDown ==
    \A k \in Sessions :
        (/\ Ui /\ NoStopCalled
         /\ rcv[k].pc = "done" /\ rcv[k].exit = "error_batch" /\ receive_thread = k)
        => /\ current_transcript =
                <<"Error: ", Batches[rcv[k].msg].error_code, " - ",
                  Batches[rcv[k].msg].error_message>>
           /\ final_tokens = TextFinalsIn(processed)
           /\ stop_event

\* C13: a capture thread that ended on an exception (device open, device
\* read or channel send) has left an error description in the transcript.
C13_CaptureFailureRecorded ==
    \A k \in Sessions :
        (Ui /\ aud[k].pc = "done" /\ aud[k].raised)
        => HasErrorText(current_transcript)

\* The background threads that have been started and have not ended.
AliveTranscribe == {t \in Threads : gth[t].pc \notin {"none", "done"}}
AliveCapture == {k \in Sessions : aud[k].pc \notin {"none", "done"}}
AliveReceive == {k \in Sessions : rcv[k].pc \notin {"none", "done"}}

\* C14: at any time at most one capture thread and at most one receive thread
\* (in the Google variant: one _transcribe thread, which is both) is alive.
C14_AtMostOneTaskPair ==
    /\ Ui => Cardinality(AliveCapture) <= 1 /\ Cardinality(AliveReceive) <= 1
    /\ Gc => Cardinality(AliveTranscribe) <= 1

\* The transcript state of the Google variant.
TranscriptState ==
    <<full_transcript, interim_transcript, detected_language, language_history>>

\* C15: while a session is running, a step that changes the transcript state
\* is a step of the thread that processes the responses, inside one of its
\* sections under self.lock.
C15_SingleWriter ==
    [][(Gc /\ GRunning /\ TranscriptState' # TranscriptState)
         => \E t \in Threads :
               ProcessLang(t) \/ ProcessUpdate(t) \/ TranscribeFail(t)]_vars

\* The pieces render_tokens emits besides token text.
LabelOf(speaker) == "Speaker " \o speaker \o ":"
TagOf(language) == "\n[" \o language \o "] "
IsLabel(piece) == \E sp \in Speakers : piece = LabelOf(sp)
IsTag(piece) == \E lang \in Languages : piece = TagOf(lang)
LabelsIn(text) == SelectSeq(text, IsLabel)
TagsIn(text) == SelectSeq(text, IsTag)

RenderedTokens == arg_final_tokens \o arg_non_final_tokens

\* The tokens whose speaker is given and is not the last speaker given before.
RECURSIVE SpeakerChanges(_, _)
SpeakerChanges(tokens, tracked) ==
    IF tokens = <<>> THEN 0
    ELSE LET sp == Head(tokens).speaker IN
         IF sp # "None" /\ sp # tracked
         THEN 1 + SpeakerChanges(Tail(tokens), sp)
         ELSE SpeakerChanges(Tail(tokens), tracked)

\* C16: the rendered text has one speaker label per token whose speaker is
\* given and differs from the speaker tracked before it, and a paragraph
\* break stands before every label but the first.
C16_SpeakerLabels ==
    /\ Len(LabelsIn(rendered)) = SpeakerChanges(RenderedTokens, "None")
    /\ \A i \in 1..Len(rendered) :
          IsLabel(rendered[i])
          => IF \E j \in 1..(i - 1) : IsLabel(rendered[j])
             THEN rendered[i - 1] = "\n\n"
             ELSE i = 1 \/ rendered[i - 1] # "\n\n"

\* Speakers 1, 1, 2, 2, 1 in one language: three labels.
C16_Witness ==
    /\ [i \in 1..Len(RenderedTokens) |-> RenderedTokens[i].speaker]
          = <<"1", "1", "2", "2", "1">>
    /\ \A i \in 1..Len(RenderedTokens) : RenderedTokens[i].language = "en"
    /\ LabelsIn(rendered) = <<"Speaker 1:", "Speaker 2:", "Speaker 1:">>

\* C17: tokens of one speaker in the languages en, en, hi, hi render with one
\* language tag, [hi], right before the text of the third token.
C17_OnlySecondLanguageTagged ==
    (/\ [i \in 1..Len(RenderedTokens) |-> RenderedTokens[i].language]
           = <<"en", "en", "hi", "hi">>
     /\ \A i \in 1..Len(RenderedTokens) : RenderedTokens[i].speaker = "1")
    => /\ TagsIn(rendered) = <<"\n[hi] ">>
       /\ \E i \in 1..Len(rendered) :
             /\ rendered[i] = "\n[hi] "
             /\ Len(SelectSeq(SubSeq(rendered, 1, i), LAMBDA p : p = "a")) = 2

\* C18: a response without an error code that holds a token without text is
\* handled like any other: the token is left out, the tokens with text are
\* merged, and the loop goes on (or ends because the response is the last).
HasTextless(res) == \E i \in 1..Len(res.tokens) : ~HasText(res.tokens[i])

C18_TextlessTokenSkipped ==
    [][\A k \in Sessions :
         LET res == Batches[rcv[k].msg] IN
         (/\ Soniox /\ rcv[k].pc = "proc" /\ rcv'[k].pc # "proc"
          /\ res.error_code = "None" /\ HasTextless(res))
         => /\ rcv'[k].exit = (IF res.finished THEN "finished" ELSE rcv[k].exit)
            /\ rcv'[k].pc \in (IF res.finished THEN {"done", "join"}
                               ELSE {"loop", "recv"})
            /\ ~Ml => final_tokens' = final_tokens \o TextFinalsOf(res)]_vars

\* C19: a stop() that has set the stop signal returns, whatever the threads
\* do: the session is not running and its connection has been closed.  The
\* terminal programs likewise leave their join and close the connection.
C19_StopTerminates ==
    /\ (Ui /\ pcC = "join_audio")
          ~> (/\ pcC = "idle" /\ ret = "stopped" /\ ~is_running
              /\ ws = 0 /\ chan[nconn].closes >= 1 /\ chan[nconn].state # "open")
    /\ (Terminal /\ rcv[1].pc = "join")
          ~> (rcv[1].pc = "done" /\ chan[1].closes = 1 /\ chan[1].state # "open")

\* stop() has returned while the capture thread waits in a device read and
\* the receive thread in recv().
C19_Witness ==
    /\ Ui /\ pcC = "idle" /\ ret = "stopped" /\ ~is_running
    /\ aud[1].pc = "read"
    /\ rcv[1].pc = "recv"
    /\ chan[1].closes = 1

\* C20: a capture thread that has ended has not left its microphone stream
\* open; nor has a _transcribe thread of the Google variant.
C20_CaptureSourceClosedAtExit ==
    /\ Soniox => \A k \in Sessions : aud[k].pc = "done" => aud[k].mic # "open"
    /\ Gc => \A t \in Threads : gth[t].pc = "done" => strm[t].device # "open"

\* The thread ended on an exception after frames were read.
C20_Witness ==
    /\ Soniox
    /\ aud[1].pc = "done" /\ aud[1].raised /\ aud[1].reads >= 1
    /\ aud[1].mic = "closed"

\* C21: a start() that fails leaves the session not running, with the failure
\* returned, no thread started, and the connection it opened neither open nor
\* referenced by the session; a capture thread that could not open its device
\* leaves the session not running with the failure in the transcript.
DeviceOpenFailed ==
    /\ audio_thread # 0
    /\ aud[audio_thread].pc = "done" /\ aud[audio_thread].raised
    /\ aud[audio_thread].mic = "none"

C21_FailedStartLeavesNothing ==
    [][/\ (Ui /\ Start /\ ret' = "failed_start")
          => /\ ~is_running'
             /\ UNCHANGED <<aud, rcv>>
             /\ nconn' # nconn
                  => (ws' # nconn' /\ chan'[nconn'].state # "open"
                                   /\ chan'[nconn'].closes >= 1)
       /\ (Ui /\ NoStopCalled' /\ DeviceOpenFailed')
          => (~is_running' /\ HasErrorText(current_transcript'))]_vars

\* C22: the lock is held by a _transcribe thread only while the thread is
\* inside one of the two critical sections of _process_responses: not while
\* it opens or reads the device or waits for the next response, and not when
\* it arrives at a `with self.lock` (it never takes the lock it holds).
InCriticalSection(t) == gth[t].pc \in {"lang_cs", "update_cs"}

C22_LockOnlyInCriticalSection ==
    Gc => /\ lock \in {0} \cup Threads
          /\ \A t \in Threads : (lock = t) <=> InCriticalSection(t)

\* A thread is inside the second critical section while the other thread
\* waits for the lock at the first one.
C22_Witness ==
    /\ Gc
    /\ lock = 1 /\ gth[1].pc = "update_cs"
    /\ gth[2].pc = "lang" /\ LangChanged(2)

\* C23: while the stop signal is set the capture thread begins no device read
\* and sends no frame but the one it read last (so at most one read and one
\* send follow the signal), and a thread that is in its loop when the signal
\* is set ends, with the end-of-stream marker sent on its connection unless
\* a read or a send raised or the connection was lost or closed by the server.
HasEos(c) == \E i \in 1..Len(chan[c].sent) : chan[c].sent[i] = "eos"
LostByPeer(c) ==
    chan[c].state = "failed" \/ (chan[c].state = "closed" /\ chan[c].closes = 0)
InCaptureLoop(k) == aud[k].pc \in {"loop", "read", "send"}

C23_PromptCancellation ==
    /\ [][\A k \in Sessions :
            (Soniox /\ stop_event /\ stop_event')
            => /\ aud'[k].pc = "read" => aud[k].pc = "read"
               /\ aud'[k].pc = "send" => aud[k].pc \in {"read", "send"}]_vars
    /\ \A k \in Sessions :
          (Soniox /\ stop_event /\ InCaptureLoop(k))
             ~> (/\ aud[k].pc = "done"
                 /\ aud[k].raised \/ HasEos(k) \/ LostByPeer(k))

\* C24: the response with finished set is merged and rendered like any other
\* and ends the receive loop of the front end and of soniox_realtime.py; from
\* then on that loop takes no response from the connection and changes
\* neither the final log, the transcript nor the list of handled responses:
\* they change, and a response is taken, only in a step of another receive
\* thread (one left over from an earlier session of the same object).
LoopFinished(k) ==
    /\ Ui \/ Rt
    /\ rcv[k].exit = "finished"
    /\ Ui => receive_thread = k

OtherReceiveStep(k) == \E j \in Sessions \ {k} : rcv'[j] # rcv[j]

C24_FinishedEndsLoop ==
    [][\A k \in Sessions :
         LET res == Batches[rcv[k].msg] IN
         /\ (/\ Ui \/ Rt
             /\ rcv[k].pc = "proc" /\ rcv'[k].pc # "proc"
             /\ res.error_code = "None" /\ res.finished)
            => /\ rcv'[k].exit = "finished"
               /\ rcv'[k].pc \in {"done", "join"}
               /\ final_tokens' = final_tokens \o TextFinalsOf(res)
               /\ current_transcript' =
                     render_tokens(final_tokens', NonFinalsOf(res.tokens))
         /\ (LoopFinished(k) /\ nconn' = nconn)
            => /\ rcv'[k].pc \in {"done", "join", "exit"}
               /\ rcv'[k].msg = rcv[k].msg
               /\ \/ /\ UNCHANGED <<final_tokens, current_transcript, processed>>
                     /\ IsPrefix(chan[rcv[k].conn].inbox, chan'[rcv[k].conn].inbox)
                  \/ OtherReceiveStep(k)]_vars

\* The loop has ended on the finished response and a later response lies
\* unreceived on the connection.
C24_Witness ==
    /\ Ui
    /\ rcv[1].pc = "done" /\ rcv[1].exit = "finished"
    /\ processed = <<3>>
    /\ Len(final_tokens) = 1 /\ final_tokens[1].text = <<"e">>
    /\ chan[1].inbox = <<2>>

\* C25: on every connection the configuration is the first message sent and
\* is sent once, so no frame and no end-of-stream marker precedes it; and the
\* capture thread of a session exists only when the configuration was sent.
CountOf(seq, x) == Len(SelectSeq(seq, LAMBDA m : m = x))

C25_ConfigFirstAndOnce ==
    Soniox =>
      \A c \in DOMAIN chan :
         /\ chan[c].sent # <<>> => chan[c].sent[1] = "config"
         /\ CountOf(chan[c].sent, "config") <= 1
         /\ aud[c].pc # "none" => CountOf(chan[c].sent, "config") = 1

\* C26: on every connection the end-of-stream marker is sent at most once and
\* no audio frame follows it.
C26_EosOnceAndLast ==
    Soniox =>
      \A c \in DOMAIN chan :
         /\ CountOf(chan[c].sent, "eos") <= 1
         /\ \A i, j \in 1..Len(chan[c].sent) :
               (i < j /\ chan[c].sent[i] = "eos") => chan[c].sent[j] # "frame"

\* C27: when stop() closes a connection that is still open and on which an
\* audio frame was sent, the end-of-stream marker has been sent on it.
C27_EosBeforeClose ==
    [][(/\ Ui /\ StopClose /\ ws # 0
        /\ chan[ws].state = "open"
        /\ CountOf(chan[ws].sent, "frame") >= 1)
       => HasEos(ws)]_vars

\* C28: in the terminal programs, whatever ended the receive loop, the stop
\* signal is set when the session waits for the capture thread, and stays
\* set while the connection is closed.
C28_StopSetBeforeJoin ==
    (Terminal /\ rcv[1].pc \in {"join", "exit", "done"}
              /\ rcv[1].exit # "connect_failed")
    => stop_event

\* The pieces render_tokens emitted for the n-th token: every token of the
\* calls has the text " a", so its pieces end at the n-th "a".
APos(text, n) ==
    IF n = 0 THEN 0
    ELSE CHOOSE i \in 1..Len(text) :
            text[i] = "a" /\ CountOf(SubSeq(text, 1, i), "a") = n
PiecesOf(text, n) == SubSeq(text, APos(text, n - 1) + 1, APos(text, n))

\* The speaker given last among the first n tokens.
RECURSIVE SpeakerAt(_, _)
SpeakerAt(tokens, n) ==
    IF n = 0 THEN "None"
    ELSE IF tokens[n].speaker # "None" THEN tokens[n].speaker
    ELSE SpeakerAt(tokens, n - 1)

IsSpeakerChange(tokens, n) ==
    tokens[n].speaker # "None" /\ tokens[n].speaker # SpeakerAt(tokens, n - 1)

\* C29: after a change of speaker at token n, the first token from n on that
\* carries a language (with no further change of speaker up to it) is
\* rendered with the tag of its language, whatever was tracked before.
C29_SpeakerChangeResetsLanguage ==
    LET tokens == RenderedTokens IN
    \A n, m \in 1..Len(tokens) :
       (/\ n <= m
        /\ IsSpeakerChange(tokens, n)
        /\ \A i \in (n + 1)..m : ~IsSpeakerChange(tokens, i)
        /\ \A i \in n..(m - 1) : tokens[i].language = "None"
        /\ tokens[m].language # "None")
       => TagsIn(PiecesOf(rendered, m)) = <<TagOf(tokens[m].language)>>

\* Speaker 1 and then speaker 2, both in English: both get the [en] tag.
C29_Witness ==
    /\ [i \in 1..Len(RenderedTokens) |-> RenderedTokens[i].speaker] = <<"1", "2">>
    /\ [i \in 1..Len(RenderedTokens) |-> RenderedTokens[i].language] = <<"en", "en">>
    /\ rendered = <<"Speaker 1:", "\n[en] ", "a", "\n\n", "Speaker 2:", "\n[en] ", "a">>

\* C30: a token without a speaker is rendered without a label and a token
\* without a language without a tag, and neither changes what is tracked: a
\* later token that repeats the speaker (the language) given last before it
\* gets no label (no tag) either.
C30_MissingFieldsInherit ==
    LET tokens == RenderedTokens IN
    /\ \A n \in 1..Len(tokens) :
          /\ tokens[n].speaker = "None" => LabelsIn(PiecesOf(rendered, n)) = <<>>
          /\ tokens[n].language = "None"
                => PiecesOf(rendered, n) \in
                      { tokens[n].text,
                        <<LabelOf(tokens[n].speaker)>> \o tokens[n].text,
                        <<"\n\n", LabelOf(tokens[n].speaker)>> \o tokens[n].text }
    /\ \A n, m \in 1..Len(tokens) :
          /\ (/\ n < m
              /\ tokens[n].speaker # "None"
              /\ \A i \in (n + 1)..(m - 1) : tokens[i].speaker = "None"
              /\ tokens[m].speaker = tokens[n].speaker)
             => LabelsIn(PiecesOf(rendered, m)) = <<>>
          /\ (/\ n < m
              /\ tokens[n].language # "None"
              /\ \A i \in (n + 1)..(m - 1) : tokens[i].language = "None"
              /\ \A i \in (n + 1)..m : ~IsSpeakerChange(tokens, i)
              /\ tokens[m].language = tokens[n].language)
             => TagsIn(PiecesOf(rendered, m)) = <<>>

\* A token with neither field between two tokens of speaker 1 in English.
C30_Witness ==
    /\ [i \in 1..Len(RenderedTokens) |-> RenderedTokens[i].speaker]
          = <<"1", "None", "1">>
    /\ [i \in 1..Len(RenderedTokens) |-> RenderedTokens[i].language]
          = <<"en", "None", "en">>
    /\ rendered = <<"Speaker 1:", "\n[en] ", "a", " ", "a", " ", "a">>

\* The text render_tokens emitted for the n-th token: its pieces without the
\* paragraph break, the label and the tag.
TextOf(text, n) ==
    SelectSeq(PiecesOf(text, n),
              LAMBDA p : ~IsLabel(p) /\ ~IsTag(p) /\ p # "\n\n")

\* C31 as claimed: a token rendered with a speaker label or a language tag
\* has its text without the leading blanks, every other token its text as is.
C31_StrippedAfterAnyTag ==
    \A n \in 1..Len(RenderedTokens) :
       TextOf(rendered, n) =
          IF LabelsIn(PiecesOf(rendered, n)) # <<>> \/ TagsIn(PiecesOf(rendered, n)) # <<>>
          THEN lstrip(RenderedTokens[n].text)
          ELSE RenderedTokens[n].text

\* C31 amended: a token rendered with a language tag has its text without the
\* leading blanks; every other token, one rendered with a speaker label alone
\* included, has its text as is.
C31_StrippedAfterLanguageTag ==
    \A n \in 1..Len(RenderedTokens) :
       TextOf(rendered, n) =
          IF TagsIn(PiecesOf(rendered, n)) # <<>>
          THEN <<"a">>
          ELSE RenderedTokens[n].text

\* A label alone, then a tag alone, then neither.
C31_Witness ==
    /\ [i \in 1..Len(RenderedTokens) |-> RenderedTokens[i].speaker]
          = <<"1", "1", "1">>
    /\ [i \in 1..Len(RenderedTokens) |-> RenderedTokens[i].language]
          = <<"None", "en", "en">>
    /\ rendered = <<"Speaker 1:", " ", "a", "\n[en] ", "a", " ", "a">>

\* C32: a final result is appended with its language marker when the language
\* history holds two distinct codes or more at that moment, and without a
\* marker while it holds fewer.
DistinctLanguages == {language_history[i] : i \in 1..Len(language_history)}
MarkerOf(response) == "[" \o _get_language_name(CurrentLang(response)) \o "] "

C32_MarkerFromSecondLanguage ==
    [][\A t \in Threads :
         LET response == GResponses[gth[t].resp] IN
         (/\ Gc /\ gth[t].pc = "update_cs" /\ gth'[t].pc = "next"
          /\ response.is_final)
         => full_transcript' =
               full_transcript
                  \o (IF Cardinality(DistinctLanguages) >= 2
                      THEN <<MarkerOf(response)>> ELSE <<>>)
                  \o response.transcript \o <<" ">>]_vars

\* A final result in Hindi after an English interim one, and then a final
\* result in English: both are marked.
C32_Witness ==
    /\ Gc
    /\ language_history = <<"en-US", "hi-IN">>
    /\ full_transcript = <<"[HI] ", "y", " ">>

\* C33: applying a non-final result replaces the interim text and leaves the
\* final transcript as it is; applying a final result appends the result's
\* text, after its marker if any, and a blank to the final transcript and
\* empties the interim text; and the text a snapshot read returns is the final
\* transcript followed by the interim text, which is empty or one hypothesis.
Hypotheses ==
    {GResponses[r].transcript : r \in {q \in ResponseIds : ~GResponses[q].is_final}}

EndsWith(seq, tail) ==
    /\ Len(tail) <= Len(seq)
    /\ SubSeq(seq, Len(seq) - Len(tail) + 1, Len(seq)) = tail

C33_InterimReplacedFinalAppended ==
    [][Gc =>
        /\ \A t \in Threads :
             LET response == GResponses[gth[t].resp] IN
             (gth[t].pc = "update_cs" /\ gth'[t].pc = "next")
             => IF response.is_final
                THEN /\ IsPrefix(full_transcript, full_transcript')
                     /\ Len(full_transcript') - Len(full_transcript)
                           \in {Len(response.transcript) + 1,
                                Len(response.transcript) + 2}
                     /\ EndsWith(full_transcript', response.transcript \o <<" ">>)
                     /\ interim_transcript' = <<>>
                ELSE /\ full_transcript' = full_transcript
                     /\ interim_transcript' = response.transcript
        /\ interim_transcript' \in Hypotheses \cup {<<>>}
        /\ gsnap' # gsnap => gsnap'.text = full_transcript \o interim_transcript
      ]_vars

\* A snapshot read after a final result and then a non-final one.
C33_Witness ==
    /\ Gc
    /\ full_transcript = <<"y", " ">>
    /\ interim_transcript = <<"x">>
    /\ gsnap.text = <<"y", " ", "x">>

\* C34: the language history never holds a code twice, loses no code in a
\* step that begins and ends with the session recording, and holds the
\* detected language whenever that is a language code.
CodesIn(history) == {history[i] : i \in 1..Len(history)}
LanguageCodes == {LANGUAGE_CODES[i] : i \in 1..Len(LANGUAGE_CODES)}

C34_HistoryGrowsAsSet ==
    [][Gc =>
        /\ Cardinality(CodesIn(language_history')) = Len(language_history')
        /\ (is_recording /\ is_recording')
              => CodesIn(language_history) \subseteq CodesIn(language_history')
        /\ detected_language' \in LanguageCodes
              => detected_language' \in CodesIn(language_history')
      ]_vars

\* C35: once a newer session has been started, a step of a thread of an
\* earlier session changes nothing of the transcript state.
TranscriptFields ==
    <<full_transcript, interim_transcript, detected_language, language_history>>

C35_NoWriteFromEarlierSession ==
    [][Gc =>
        \A t \in Threads :
          (t < nthreads /\ gth'[t] # gth[t]) => UNCHANGED TranscriptFields
      ]_vars

\* C36: a capture thread that goes on from its send statement to the next
\* test of the loop has put the frame it read on a channel: the frames sent
\* have grown by one, and by no step other than such a one do they grow.
FramesSent == Sum([c \in DOMAIN chan |-> CountOf(chan[c].sent, "frame")], Len(chan))

C36_EveryFrameSentOnce ==
    [][/\ \A k \in DOMAIN aud :
            (aud[k].pc = "send" /\ aud'[k].pc = "loop")
            => FramesSent' = FramesSent + 1
       /\ FramesSent' # FramesSent
            => \E k \in DOMAIN aud : aud[k].pc = "send" /\ aud'[k].pc = "loop"
      ]_vars

\* C37: the text stop_transcription() returns is the text a snapshot read
\* returns in the state the call leaves.
C37_StopReturnsSnapshot ==
    [][(Gc /\ gret' # gret /\ gret'.status = "stopped")
        => gret'.text =
              Snapshot(full_transcript', interim_transcript', detected_language').text
      ]_vars

====
